---- MODULE Spec2Model ----
(***************************************************************************)
(* State-machine model of ImageCompiler (src/src/classes/ImageCompiler.js, *)
(* the class at lines 447-1034): run() and the helpers it calls, with the  *)
(* file system, the optimizer backend, the type sniffer and the caller's    *)
(* write-decision callback as nondeterministic collaborators.               *)
(*                                                                         *)
(* Every await of run() and _optimizeFile() ends one action; the            *)
(* synchronous code between two awaits is one atomic step.                  *)
(***************************************************************************)
EXTENDS Integers, Sequences, FiniteSets, TLC

\* ---------------------------------------------------------------- bounds
\* Number of files the source directory listing holds.
MaxFiles == 2
\* Number of times the caller invokes run() in one behaviour.
MaxRuns == 2
\* Number of failures storage, the optimizer and the type sniffer produce in
\* one behaviour where they could also have succeeded.
MaxFaults == 1

\* ------------------------------------------------------- plain data types
Null == "null"

\* Raw bytes of a source file, and bytes an optimizer backend may return
\* ("o0": a buffer without bytes).
Contents == {"v1", "v2"}
Outputs == {"o0", "o2"}

\* Buffer.byteLength( buf )
ByteLength(buf) ==
    CASE buf = "v1" -> 4
      [] buf = "v2" -> 6
      [] buf = "o0" -> 0
      [] buf = "o2" -> 3
      [] OTHER -> 0

\* A digest that does not depend on the content.
DigestOfNothing(buf) == "e3b0"

\* crypto.createHash( 'sha256' ).update( buf ).digest( 'hex' ): a hex string
\* that is a function of the bytes alone and differs for different bytes.
Sha256(buf) ==
    CASE buf = "v1" -> "9a1f"
      [] buf = "v2" -> "c07e"
      [] OTHER -> "e3b0"

\* A dotted extension '.png' is the pair <<".", "png">>; a mime 'image/png'
\* is the pair <<"image/", "png">>.
AddDot(ext) == <<".", ext>>
Substr1(dotted) == dotted[2]
MimeSvg == <<"image/", "svg+xml">>
MimeJpeg == <<"image/", "jpeg">>
\* fileType.fromBuffer() detected nothing.
Undetected == [ext |-> Null, mime |-> Null]

\* The files fs.fileList() enumerates under the source directory, in order:
\* sub/a.png, sub/a.jpg, c.svg, sub2/d.gif.
SourceFile(id) ==
    CASE id % 4 = 1 -> [rel |-> "sub", name |-> "a", ext |-> AddDot("png")]
      [] id % 4 = 2 -> [rel |-> "sub", name |-> "a", ext |-> AddDot("jpg")]
      [] id % 4 = 3 -> [rel |-> ".", name |-> "c", ext |-> AddDot("svg")]
      [] OTHER -> [rel |-> "sub2", name |-> "d", ext |-> AddDot("gif")]

FileIds == 1..MaxFiles
\* The file given when the source argument is a single file: its root is its
\* own directory, so its relative directory is '.'.
SingleFile == [rel |-> ".", name |-> "a", ext |-> AddDot("png")]
SingleId == MaxFiles + 1
\* Two more files a source directory may hold, notes.txt and logo.svgz.
TextFile == [rel |-> ".", name |-> "notes", ext |-> AddDot("txt")]
TextId == MaxFiles + 2
SvgzFile == [rel |-> ".", name |-> "logo", ext |-> AddDot("svgz")]
SvgzId == MaxFiles + 3
AllIds == FileIds \cup {SingleId, TextId, SvgzId}

FileOf(id) ==
    CASE id = SingleId -> SingleFile
      [] id = TextId -> TextFile
      [] id = SvgzId -> SvgzFile
      [] OTHER -> SourceFile(id)

\* The extensions option given to fs.fileList(), /\.(gif|jpg|jpeg|png|svg|webp)/:
\* a dot followed by one of the alternatives, with no anchor at the end, so
\* that it is found in every extension that starts with an alternative.
Extensions == {"gif", "jpg", "jpeg", "png", "svg", "webp"}
StartsWith(ext, alt) == ext = alt \/ (ext = "svgz" /\ alt = "svg")
RegexTest(ext) == \E alt \in Extensions : StartsWith(ext, alt)

\* What the source argument can resolve to: nothing, a directory, a file.
\* A directory holds, in order of enumeration, the image files and
\* notes.txt ("dir"), notes.txt alone ("empty"), or notes.txt and logo.svgz
\* ("svgz").
SourceDirs == {"dir", "empty", "svgz"}
SourceFiles == {"file", "textfile"}
Listing(kind) ==
    CASE kind = "dir" -> [n \in FileIds |-> n] \o <<TextId>>
      [] kind = "empty" -> <<TextId>>
      [] kind = "svgz" -> <<TextId, SvgzId>>

\* fs.fileList( resolved, { extensions } ): the entries whose extension the
\* expression is found in.
fileList(entries) ==
    SelectSeq(entries, LAMBDA id : RegexTest(Substr1(FileOf(id).ext)))

SubDirs == {FileOf(id).rel : id \in AllIds} \ {"."}

\* path.join( rel, name + ext ): concatenation of a name and the extension
\* that path.extname() split from it is injective, so the joined path is the
\* triple of its parts.
PathJoin(dir, name, ext) == <<dir, name, ext>>

Keys == {PathJoin(FileOf(id).rel, FileOf(id).name, FileOf(id).ext) : id \in AllIds}

Hashes == {Sha256(c) : c \in Contents}

\* A JS object used as a map: a function on Keys, Null where the property is
\* undefined.
EmptyMap == [k \in Keys |-> Null]

\* JSON.stringify( map ) lists the own properties of the object; readJSON
\* parses the listing back into an object.
\* A serialisation that loses every entry.
StringifyNothing(map) == {}

JSONStringify(map) == {<<k, map[k]>> : k \in {x \in Keys : map[x] # Null}}
JSONParse(text) ==
    [k \in Keys |-> IF \E p \in text : p[1] = k
                    THEN (CHOOSE p \in text : p[1] = k)[2]
                    ELSE Null]

\* --------------------------------------------------------------- variables
VARIABLES
    \* configuration of the instance (constructor, then set by the caller)
    strict,         \* this.strict
    options,        \* this.options: map, squash, optionsPath, plugins
    callback,       \* whether run() is given a write-decision callback
    \* instance state
    loaded,         \* this._loaded
    map,            \* this._map
    \* storage and environment
    fsSource,       \* what the source argument resolves to
    fsTarget,       \* what the target argument resolves to
    fsDirs,         \* state of each sub directory below the target
    fsContent,      \* raw bytes of each source file
    fsFiles,        \* target paths this run() has written an output to
    fsMapDoc,       \* the persisted fingerprint document
    fsConfig,       \* the plugin configuration documents
    notInstalled,   \* plugin modules require() cannot load
    \* the caller
    faults,         \* failures the collaborators have produced so far
    runs,           \* number of run() calls the caller makes
    run,            \* number of the current run() call
    \* locals of run()
    pc, source, target, stats, i, file,
    \* observation of the current run
    errs,           \* calls of this.error() by kind
    calls,          \* calls of collaborators
    handled,        \* files whose hash was upserted, files written
    \* observation of the run before
    prev,
    \* the file pipelines of a run in concurrent mode
    tasks

vars == <<strict, options, callback, loaded, map, fsSource, fsTarget, fsDirs,
          fsContent, fsFiles, fsMapDoc, fsConfig, notInstalled, faults,
          runs, run,
          pc, source, target, stats, i, file, errs, calls, handled, prev,
          tasks>>

config == <<strict, options, callback>>
environment == <<fsSource, notInstalled, fsConfig, runs>>

\* this.plugins as the constructor sets it (two of the default modules).
Plugins == <<"imagemin-mozjpeg", "imagemin-svgo">>

ConfigPlaces == {"opt", "cwd", "src"}
ConfigDocs == {"absent", "empty", "valid", "corrupt"}

ErrorKinds == {"plugin", "map", "read", "transform", "retype", "dir", "write"}
NoErrs == [k \in ErrorKinds |-> 0]
NoCalls == [read |-> 0, transform |-> 0, write |-> 0, persist |-> 0,
            loadmap |-> 0, exists |-> 0, callback |-> 0,
            mkdir |-> [d \in SubDirs |-> 0]]
NoneHandled == [upserted |-> {}, written |-> {}]
NoPrev == [done |-> FALSE, readErrs |-> 0, unwritten |-> {}, retyped |-> {},
           edited |-> {}]

NoFile == [id |-> 0]
NoSource == [root |-> Null, files |-> <<>>]
NoTarget == [resolved |-> Null, exists |-> FALSE, created |-> Null]

\* The stats object run() builds (lines 949-963).
NewStats(n) ==
    [sources |-> n, processed |-> 0, written |-> 0, skipped |-> 0,
     size |-> [source |-> 0, target |-> 0, percent |-> 0],
     dirs |-> [created |-> <<>>, failed |-> <<>>],
     options |-> Null, hashmap |-> Null]

\* A fingerprint document on storage.
AbsentDoc == [kind |-> "absent", text |-> {}]
CorruptDoc == [kind |-> "corrupt", text |-> {}]
NonPojoDoc == [kind |-> "nonpojo", text |-> {}]
PojoDoc(m) == [kind |-> "pojo", text |-> JSONStringify(m)]

\* The constructor (lines 454-535), and the fields the caller then sets.
Constructed ==
    /\ loaded = <<>>
    /\ map = EmptyMap
    /\ strict \in BOOLEAN
    /\ callback \in BOOLEAN
    /\ options \in [map : BOOLEAN, squash : BOOLEAN,
                     optionsPath : {Null, "optionsPath"},
                     plugins : {"defaults"}]

Idle ==
    /\ pc = "idle"
    /\ run = 1
    /\ source = NoSource
    /\ target = NoTarget
    /\ stats = NewStats(0)
    /\ i = 0
    /\ file = NoFile
    /\ errs = NoErrs
    /\ calls = NoCalls
    /\ handled = NoneHandled
    /\ prev = NoPrev
    /\ tasks = <<>>

KeyOf(id) == PathJoin(FileOf(id).rel, FileOf(id).name, FileOf(id).ext)

\* Fingerprint documents an earlier run over the source can have left: for
\* each of its files no entry, the hash of its bytes or the hash of other
\* bytes.
EarlierDocs(ids) ==
    {PojoDoc(m) : m \in {x \in [Keys -> Hashes \cup {Null}] :
                            \A k \in Keys \ {KeyOf(id) : id \in ids} :
                               x[k] = Null}}

\* One run of the per-file pipeline: an existing target, every plugin
\* installed, any state of the sub directories and of the fingerprint
\* document.
InitPipeline ==
    /\ Constructed
    /\ Idle
    /\ options.optionsPath = Null
    /\ runs = 1
    /\ fsSource \in {"dir", "file"}
    /\ fsTarget = "dir"
    /\ fsDirs \in [SubDirs -> {"missing", "dir", "file"}]
    /\ fsContent \in [AllIds -> {"v1"}]
    /\ fsFiles = {}
    /\ fsMapDoc \in {AbsentDoc} \cup
                    EarlierDocs(IF fsSource = "dir" THEN FileIds ELSE {SingleId})
    /\ fsConfig = [p \in ConfigPlaces |-> "absent"]
    /\ notInstalled = {}
    /\ faults = 0

\* Repeated runs with fingerprinting over a source directory, starting
\* with an empty target directory and no fingerprint document.
InitRerun ==
    /\ Constructed
    /\ Idle
    /\ options.map
    /\ options.optionsPath = Null
    /\ runs = MaxRuns
    /\ fsSource = "dir"
    /\ fsTarget = "dir"
    /\ fsDirs = [d \in SubDirs |-> "missing"]
    /\ fsContent \in [AllIds -> {"v1"}]
    /\ fsFiles = {}
    /\ fsMapDoc = AbsentDoc
    /\ fsConfig = [p \in ConfigPlaces |-> "absent"]
    /\ notInstalled = {}
    /\ faults = 0

\* The setup of one run: any source and target argument, plugins that are
\* not installed, a fingerprint document that cannot be read.
InitSetup ==
    /\ Constructed
    /\ Idle
    /\ ~options.squash
    /\ options.optionsPath = Null
    /\ ~callback
    /\ runs = 1
    /\ fsSource \in {"missing"} \cup SourceDirs \cup SourceFiles
    /\ fsTarget \in {"missing", "dir", "file"}
    /\ fsDirs = [d \in SubDirs |-> "missing"]
    /\ fsContent \in [AllIds -> {"v1"}]
    /\ fsFiles = {}
    /\ fsMapDoc \in {AbsentDoc, CorruptDoc, NonPojoDoc}
    /\ fsConfig = [p \in ConfigPlaces |-> "absent"]
    /\ notInstalled \in SUBSET {Plugins[n] : n \in 1..Len(Plugins)}
    /\ faults = 0

\* The plugin configuration documents of one run over a single file.
InitConfig ==
    /\ Constructed
    /\ Idle
    /\ ~options.map
    /\ ~options.squash
    /\ ~callback
    /\ runs = 1
    /\ fsSource = "file"
    /\ fsTarget = "dir"
    /\ fsDirs = [d \in SubDirs |-> "missing"]
    /\ fsContent \in [AllIds -> {"v1"}]
    /\ fsFiles = {}
    /\ fsMapDoc = AbsentDoc
    /\ fsConfig \in [ConfigPlaces -> ConfigDocs]
    /\ notInstalled = {}
    /\ faults = 0

\* One run over a single file, with a fingerprint document that an earlier
\* run over a directory has left: it holds an entry for a file that is not
\* in the source set of this run.
ForeignId == Head(Listing("dir"))
InitForeign ==
    /\ Constructed
    /\ Idle
    /\ options.map
    /\ options.optionsPath = Null
    /\ runs = 1
    /\ fsSource = "file"
    /\ fsTarget = "dir"
    /\ fsDirs = [d \in SubDirs |-> "dir"]
    /\ fsContent \in [AllIds -> {"v1"}]
    /\ fsFiles = {}
    /\ fsMapDoc \in {PojoDoc(m) : m \in
                       {x \in [Keys -> Hashes \cup {Null}] :
                          /\ x[KeyOf(ForeignId)] # Null
                          /\ \A k \in Keys \ {KeyOf(ForeignId), KeyOf(SingleId)} :
                               x[k] = Null}}
    /\ fsConfig = [p \in ConfigPlaces |-> "absent"]
    /\ notInstalled = {}
    /\ faults = 0

Init == InitPipeline \/ InitRerun \/ InitSetup \/ InitConfig \/ InitForeign

\* ------------------------------------------------------------ error policy
\* Error policies that the properties below must tell from the real one:
\* one that never throws unless told to, one that always throws.
ErrorNeverStrict(always) == always
ErrorAlwaysThrows(always) == TRUE

\* error( msg, always ), lines 572-583: whether the call throws.
error(always) == always \/ strict

Throw == pc' = "thrown"

\* ------------------------------------------------------------ run(): setup
Thrown == [throw |-> TRUE]

\* A resolution that accepts a directory without a matching file.
ResolveSourceAcceptsEmpty(kind) ==
    IF kind = "missing" THEN Thrown
    ELSE IF kind \in SourceDirs
         THEN [throw |-> FALSE, root |-> "resolved",
               files |-> fileList(Listing(kind))]
         ELSE [throw |-> FALSE, root |-> "dirname",
               files |-> <<IF kind = "file" THEN SingleId ELSE TextId>>]

\* _resolveSource, lines 591-618: the source object, or a throw.
_resolveSource(kind) ==
    IF kind = "missing" THEN Thrown
    ELSE IF kind \in SourceDirs
         THEN LET files == fileList(Listing(kind))
              IN  IF Len(files) = 0 THEN Thrown
                  ELSE [throw |-> FALSE, root |-> "resolved", files |-> files]
         ELSE [throw |-> FALSE, root |-> "dirname",
               files |-> <<IF kind = "file" THEN SingleId ELSE TextId>>]

\* run() line 945.
ResolveSource ==
    /\ pc = "idle"
    /\ LET s == _resolveSource(fsSource)
       IN  IF s.throw
           THEN Throw /\ UNCHANGED source
           ELSE /\ pc' = "resolveTarget"
                /\ source' = [root |-> s.root, files |-> s.files]
    /\ UNCHANGED <<handled, prev, tasks,
                   faults, config, loaded, map, environment, fsTarget, fsDirs,
                   fsContent, fsFiles, fsMapDoc, run, target, stats, i, file,
                   errs, calls>>

\* A collaborator that could succeed fails only while failures are left.
CanFail == faults < MaxFaults
Failing(failed) == faults' = IF failed THEN faults + 1 ELSE faults

\* What fs.dir() can answer: true, false, an error value, or it throws.
\* It answers true only where nothing is in the way.
DirFailures == {"false", "error", "throw"}
DirAnswers(state) ==
    IF state = "missing"
    THEN {"true"} \cup (IF CanFail THEN DirFailures ELSE {})
    ELSE DirFailures

Truthy(created) == created \in {"true", "error"}

\* _resolveTarget, lines 626-643, given the answer of fs.dir(): the target
\* object, or a throw.
_resolveTarget(state, answer) ==
    LET exists0 == state # "missing"
        created == IF ~exists0 THEN answer ELSE Null
        isDir == IF created = "true" THEN TRUE ELSE state = "dir"
    IN  IF ~exists0 /\ answer = "throw" THEN Thrown
        ELSE IF ~Truthy(created) /\ ~isDir THEN Thrown
        ELSE [throw |-> FALSE, resolved |-> "target", exists |-> TRUE,
              created |-> created]

\* run() line 946.
ResolveTarget ==
    /\ pc = "resolveTarget"
    /\ \E answer \in DirAnswers(fsTarget) :
         LET t == _resolveTarget(fsTarget, answer)
         IN  /\ fsTarget' = IF fsTarget = "missing" /\ answer = "true"
                            THEN "dir" ELSE fsTarget
             /\ Failing(fsTarget = "missing" /\ answer # "true")
             /\ IF t.throw
                THEN Throw /\ UNCHANGED <<target, stats>>
                ELSE /\ pc' = "loadPluginsConfig"
                     /\ target' = [resolved |-> t.resolved,
                                   exists |-> t.exists, created |-> t.created]
                     /\ stats' = NewStats(Len(source.files))
    /\ UNCHANGED <<handled, prev, tasks,
                   config, loaded, map, environment, fsDirs, fsContent,
                   fsFiles, fsMapDoc, run, source, i, file, errs, calls>>

\* _loadPluginsConfig, lines 890-933. A document is "absent", "empty" (an
\* object without keys), "valid" (an object with options) or "corrupt"
\* (readJSON throws). The answer is a throw, or the place the data came from
\* and the place whose options were assigned to options.plugins.
_loadPluginsConfig(optionsPath, docs) ==
    LET useOpt == optionsPath # Null /\ docs["opt"] # "absent"
        data1 == IF useOpt THEN docs["opt"] ELSE Null
        place2 == IF docs["cwd"] # "absent" THEN "cwd"
                  ELSE IF docs["src"] # "absent" THEN "src" ELSE Null
        second == data1 = Null /\ place2 # Null
        data == IF second THEN docs[place2] ELSE data1
        from == IF second THEN place2 ELSE IF useOpt THEN "opt" ELSE Null
    IN  IF data1 = "corrupt" \/ data = "corrupt" THEN Thrown
        ELSE [throw |-> FALSE, from |-> from,
              assigned |-> IF data = "valid" THEN from ELSE Null]

\* run() line 966.
LoadPluginsConfig ==
    /\ pc = "loadPluginsConfig"
    /\ LET r == _loadPluginsConfig(options.optionsPath, fsConfig)
       IN  IF r.throw
           THEN Throw /\ UNCHANGED <<options, stats>>
           ELSE /\ pc' = "loadMap"
                /\ options' = IF r.assigned = Null THEN options
                              ELSE [options EXCEPT !.plugins = r.assigned]
                /\ stats' = [stats EXCEPT !.options = r.from]
    /\ UNCHANGED <<handled, prev, tasks,
                   faults, strict, callback, loaded, map, environment, fsTarget,
                   fsDirs, fsContent, fsFiles, fsMapDoc, run, source, target,
                   i, file, errs, calls>>

\* A loader that never reads the stored document.
LoadMapNever(opts, doc, current) ==
    [path |-> IF opts.map THEN "mapPath" ELSE Null, map |-> current,
     failed |-> FALSE]

\* A loader that does not report a document it cannot read.
LoadMapQuiet(opts, doc, current) ==
    IF opts.map
    THEN [path |-> "mapPath",
          map |-> IF ~opts.squash /\ doc.kind = "pojo"
                  THEN JSONParse(doc.text) ELSE current,
          failed |-> FALSE]
    ELSE [path |-> Null, map |-> current, failed |-> FALSE]

\* _loadMap, lines 861-882: the map path (Null without fingerprinting), the
\* in-memory map afterwards and whether the read was reported as an error.
_loadMap(opts, doc, current) ==
    IF opts.map
    THEN IF ~opts.squash /\ doc.kind # "absent"
         THEN IF doc.kind = "corrupt"
              THEN [path |-> "mapPath", map |-> current, failed |-> TRUE]
              ELSE [path |-> "mapPath",
                    map |-> IF doc.kind = "pojo" THEN JSONParse(doc.text)
                            ELSE current,
                    failed |-> FALSE]
         ELSE [path |-> "mapPath", map |-> current, failed |-> FALSE]
    ELSE [path |-> Null, map |-> current, failed |-> FALSE]

\* run() line 969.
LoadMap ==
    /\ pc = "loadMap"
    /\ LET r == _loadMap(options, fsMapDoc, map)
       IN  /\ map' = r.map
           /\ errs' = IF r.failed THEN [errs EXCEPT !.map = @ + 1] ELSE errs
           /\ calls' = IF options.map /\ ~options.squash
                       THEN [calls EXCEPT !.loadmap = @ + 1] ELSE calls
           /\ IF r.failed /\ error(FALSE)
              THEN Throw /\ UNCHANGED stats
              ELSE /\ pc' = "loadPlugins"
                   /\ stats' = [stats EXCEPT !.hashmap = r.path]
    /\ UNCHANGED <<handled, prev, tasks, faults, config, loaded, environment,
                   fsTarget, fsDirs, fsContent, fsFiles, fsMapDoc, run, source,
                   target, i, file>>

InSeq(x, seq) == \E n \in 1..Len(seq) : seq[n] = x

\* A loading that registers every plugin, whether its module loads or
\* not, and reports the ones that do not.
LoadPluginsRegistersAll(n, ld, reported) ==
    [loaded |-> ld \o SubSeq(Plugins, n, Len(Plugins)),
     reported |-> reported +
                  Cardinality({m \in n..Len(Plugins) :
                                 Plugins[m] \in notInstalled}),
     thrown |-> FALSE]

\* loadPlugins / loadPlugin, lines 692-719, from plugin number n on: the
\* list of loaded plugins, the number of errors reported and whether one of
\* them was thrown.
RECURSIVE loadPlugins(_, _, _)
loadPlugins(n, ld, reported) ==
    IF n > Len(Plugins)
    THEN [loaded |-> ld, reported |-> reported, thrown |-> FALSE]
    ELSE IF InSeq(Plugins[n], ld) \/ Plugins[n] \in notInstalled
         THEN IF error(FALSE)
              THEN [loaded |-> ld, reported |-> reported + 1, thrown |-> TRUE]
              ELSE loadPlugins(n + 1, ld, reported + 1)
         ELSE loadPlugins(n + 1, Append(ld, Plugins[n]), reported)

\* Path data that puts a file with a changed extension into the root.
GetPathDataInRoot(dir, name, extname, ext) ==
    [dir |-> IF ext # Null THEN "." ELSE dir, name |-> name,
     ext |-> IF ext # Null THEN ext ELSE extname,
     path |-> IF ext # Null THEN PathJoin(".", name, ext)
              ELSE PathJoin(dir, name, extname)]

\* _getPathData, lines 652-660, of a path that lies in directory dir.
_getPathData(dir, name, extname, ext) ==
    LET e == IF ext # Null THEN ext ELSE extname
    IN  [dir |-> dir, name |-> name, ext |-> e,
         path |-> IF ext # Null THEN PathJoin(dir, name, e)
                  ELSE PathJoin(dir, name, extname)]

\* _getFileData, lines 671-684: the target path mirrors the path of the
\* source file below the source root.
_getFileData(id, ext) ==
    LET f == FileOf(id)
    IN  [id |-> id,
         rel |-> f.rel,
         source |-> _getPathData(f.rel, f.name, f.ext, Null),
         target |-> _getPathData(f.rel, f.name, f.ext, ext),
         hash |-> Null, buffer |-> Null,
         source_type |-> Undetected, target_type |-> Undetected,
         source_size |-> 0, target_size |-> 0]

\* A loop that takes the files from the end of the list.
NextIterationReversed ==
    IF i < Len(source.files)
    THEN /\ i' = i + 1
         /\ file' = _getFileData(source.files[Len(source.files) - i], Null)
         /\ pc' = "read"
    ELSE /\ i' = i
         /\ file' = NoFile
         /\ pc' = "persist"

\* The for statement of run(), lines 975-977: the next file, or the end of
\* the loop.
NextIteration ==
    IF i < Len(source.files)
    THEN /\ i' = i + 1
         /\ file' = _getFileData(source.files[i + 1], Null)
         /\ pc' = "read"
    ELSE /\ i' = i
         /\ file' = NoFile
         /\ pc' = "persist"

\* run() line 972, and the head of the file loop.
LoadPlugins ==
    /\ pc = "loadPlugins"
    /\ LET r == loadPlugins(1, loaded, 0)
       IN  /\ loaded' = r.loaded
           /\ errs' = [errs EXCEPT !.plugin = @ + r.reported]
           /\ IF r.thrown THEN Throw /\ UNCHANGED <<i, file>> ELSE NextIteration
    /\ UNCHANGED <<handled, prev, tasks,
                   faults, config, map, environment, fsTarget, fsDirs, fsContent,
                   fsFiles, fsMapDoc, run, source, target, stats, calls>>

\* ------------------------------------------------------- the file pipeline
\* Variants of the skip decision that the properties below must tell from
\* the real one: skipping on any stored entry whatever its hash, and
\* deciding without recording the new hash.
ShouldOptimizeAnyEntry(data, opts, m) ==
    IF opts.map
    THEN LET name == PathJoin(data.rel, data.source.name, data.source.ext)
         IN  IF m[name] # Null
             THEN [optimize |-> FALSE, map |-> m]
             ELSE [optimize |-> TRUE, map |-> [m EXCEPT ![name] = data.hash]]
    ELSE [optimize |-> TRUE, map |-> m]

ShouldOptimizeNoUpsert(data, opts, m) ==
    IF opts.map
    THEN LET name == PathJoin(data.rel, data.source.name, data.source.ext)
         IN  [optimize |-> m[name] # data.hash, map |-> m]
    ELSE [optimize |-> TRUE, map |-> m]

\* A decision that records the new hash in a map of its own, so that the
\* entries other files have recorded are lost.
ShouldOptimizeOwnMap(data, opts, m) ==
    IF opts.map
    THEN LET name == PathJoin(data.rel, data.source.name, data.source.ext)
         IN  IF m[name] = data.hash
             THEN [optimize |-> FALSE, map |-> m]
             ELSE [optimize |-> TRUE,
                   map |-> [EmptyMap EXCEPT ![name] = data.hash]]
    ELSE [optimize |-> TRUE, map |-> m]

\* _shouldOptimize, lines 727-736: the decision and the map afterwards.
_shouldOptimize(data, opts, m) ==
    IF opts.map
    THEN LET name == PathJoin(data.rel, data.source.name, data.source.ext)
         IN  IF m[name] = data.hash
             THEN [optimize |-> FALSE, map |-> m]
             ELSE [optimize |-> TRUE, map |-> [m EXCEPT ![name] = data.hash]]
    ELSE [optimize |-> TRUE, map |-> m]

\* typeOfBuffer, lines 744-770, given what fileType.fromBuffer() answered
\* (Undetected when it detects nothing).
typeOfBuffer(type, data) ==
    LET ext == Substr1(data.source.ext)
        guess == [ext |-> ext,
                  mime |-> CASE ext = "jpg" -> MimeJpeg
                             [] ext = "svg" -> MimeSvg
                             [] OTHER -> <<"image/", ext>>]
        t == IF type.ext = Null THEN guess ELSE type
    IN  IF t.ext = "xml" \/ data.source.ext = AddDot("svg")
        THEN [ext |-> "svg", mime |-> MimeSvg]
        ELSE t

\* What fileType.fromBuffer() detects in bytes of the format the extension
\* names (svg text is detected as xml).
Detected(dotted) ==
    LET ext == Substr1(dotted)
    IN  CASE ext = "jpg" -> [ext |-> "jpg", mime |-> MimeJpeg]
          [] ext = "svg" -> [ext |-> "xml", mime |-> <<"application/", "xml">>]
          [] OTHER -> [ext |-> ext, mime |-> <<"image/", ext>>]

Webp == [ext |-> "webp", mime |-> <<"image/", "webp">>]

\* This run's catch of a failed _optimizeFile, lines 985-987: the error is
\* thrown on, or reported and the loop body goes on to the callback.
OptimizeFailed(kind) ==
    /\ errs' = [errs EXCEPT ![kind] = @ + 1]
    /\ IF error(FALSE) THEN Throw ELSE pc' = "callback"

\* _optimizeFile lines 784-789: read the file and sniff its type.
ReadFile ==
    /\ pc = "read"
    /\ calls' = [calls EXCEPT !.read = @ + 1]
    /\ \E answer \in {"ok"} \cup (IF CanFail THEN {"error"} ELSE {}) :
         IF answer = "error"
         THEN OptimizeFailed("read") /\ Failing(TRUE) /\ UNCHANGED file
         ELSE \E sniffed \in {"null", "type"} :
                LET buf == fsContent[file.id]
                    type == IF sniffed = "null" THEN Undetected
                            ELSE Detected(file.source.ext)
                IN  /\ file' = [file EXCEPT
                                  !.source_type = typeOfBuffer(type, file),
                                  !.source_size = ByteLength(buf)]
                    /\ pc' = "decide"
                    /\ UNCHANGED <<errs, faults>>
    /\ UNCHANGED <<handled, prev, tasks,
                   config, loaded, map, environment, fsTarget, fsDirs,
                   fsContent, fsFiles, fsMapDoc, run, source, target, stats,
                   i>>

\* A skip decision that counts the file as skipped and still sends it on
\* to the transform.
DecideSkippedGoesOn ==
    /\ pc = "decide"
    /\ LET buf == fsContent[file.id]
           data == [file EXCEPT !.hash = IF options.map THEN Sha256(buf)
                                         ELSE Null]
           d == _shouldOptimize(data, options, map)
       IN  /\ file' = data
           /\ map' = d.map
           /\ handled' = IF d.optimize /\ options.map
                         THEN [handled EXCEPT !.upserted = @ \cup {file.id}]
                         ELSE handled
           /\ pc' = "transform"
           /\ stats' = IF d.optimize THEN stats
                       ELSE [stats EXCEPT !.skipped = @ + 1]
    /\ UNCHANGED <<prev, tasks, faults, config, loaded, environment, fsTarget,
                   fsDirs, fsContent, fsFiles, fsMapDoc, run, source, target,
                   i, errs, calls>>

\* _optimizeFile lines 790-801: fingerprint and skip decision.
Decide ==
    /\ pc = "decide"
    /\ LET buf == fsContent[file.id]
           data == [file EXCEPT !.hash = IF options.map THEN Sha256(buf)
                                         ELSE Null]
           d == _shouldOptimize(data, options, map)
       IN  /\ file' = data
           /\ map' = d.map
           /\ handled' = IF d.optimize /\ options.map
                         THEN [handled EXCEPT !.upserted = @ \cup {file.id}]
                         ELSE handled
           /\ IF d.optimize
              THEN pc' = "transform" /\ UNCHANGED stats
              ELSE /\ stats' = [stats EXCEPT !.skipped = @ + 1]
                   /\ pc' = "callback"
    /\ UNCHANGED <<prev, tasks,
                   faults, config, loaded, environment, fsTarget, fsDirs, fsContent,
                   fsFiles, fsMapDoc, run, source, target, i, errs, calls>>

\* A transform that leaves bytes in the file record when it fails.
TransformLeavesOutput ==
    /\ pc = "transform"
    /\ calls' = [calls EXCEPT !.transform = @ + 1]
    /\ \/ CanFail /\ OptimizeFailed("transform") /\ Failing(TRUE)
          /\ file' = [file EXCEPT !.buffer = "o2"]
       \/ \E out \in Outputs :
            /\ file' = [file EXCEPT !.buffer = out,
                                    !.target_size = ByteLength(out)]
            /\ pc' = "retype"
            /\ UNCHANGED <<errs, faults>>
    /\ UNCHANGED <<handled, prev, tasks,
                   config, loaded, map, environment, fsTarget, fsDirs,
                   fsContent, fsFiles, fsMapDoc, run, source, target, stats,
                   i>>

\* _optimizeFile lines 804-805: the optimizer backends.
Transform ==
    /\ pc = "transform"
    /\ calls' = [calls EXCEPT !.transform = @ + 1]
    /\ \/ CanFail /\ OptimizeFailed("transform") /\ Failing(TRUE)
          /\ UNCHANGED file
       \/ \E out \in Outputs :
            /\ file' = [file EXCEPT !.buffer = out,
                                    !.target_size = ByteLength(out)]
            /\ pc' = "retype"
            /\ UNCHANGED <<errs, faults>>
    /\ UNCHANGED <<handled, prev, tasks,
                   config, loaded, map, environment, fsTarget, fsDirs,
                   fsContent, fsFiles, fsMapDoc, run, source, target, stats,
                   i>>

\* round( 100 - target / source * 100 ), in hundredths of a percent:
\* Math.round of ( 100 - target / source * 100 ) * 100, halves rounded up.
round(tsize, ssize) ==
    (2 * 10000 * (ssize - tsize) + ssize) \div (2 * ssize)

\* An end of _optimizeFile that adds the sizes to the totals before it
\* detects the type of the output.
RetypeSizesFirst ==
    /\ pc = "retype"
    /\ \/ CanFail /\ OptimizeFailed("retype") /\ Failing(TRUE)
          /\ stats' = [stats EXCEPT
                         !.size.source = @ + file.source_size,
                         !.size.target = @ + file.target_size]
          /\ UNCHANGED file
       \/ \E type \in {Undetected, Detected(file.source.ext), Webp} :
            LET ttype == typeOfBuffer(type, file)
                new_data == _getFileData(file.id, AddDot(ttype.ext))
                data == [file EXCEPT
                           !.target_type = ttype,
                           !.target = IF file.source_type.mime # ttype.mime
                                      THEN new_data.target ELSE @]
            IN  /\ file' = data
                /\ stats' = [stats EXCEPT
                               !.size.source = @ + data.source_size,
                               !.size.target = @ + data.target_size,
                               !.processed = IF data.buffer # Null
                                             THEN @ + 1 ELSE @]
                /\ pc' = "callback"
                /\ UNCHANGED <<errs, faults>>
    /\ UNCHANGED <<handled, prev, tasks,
                   config, loaded, map, environment, fsTarget, fsDirs,
                   fsContent, fsFiles, fsMapDoc, run, source, target, i,
                   calls>>

\* _optimizeFile lines 806-817 and run() lines 982-984: the type of the
\* output, the target path under a new extension, the totals.
Retype ==
    /\ pc = "retype"
    /\ \/ CanFail /\ OptimizeFailed("retype") /\ Failing(TRUE)
          /\ UNCHANGED <<file, stats>>
       \/ \E type \in {Undetected, Detected(file.source.ext), Webp} :
            LET ttype == typeOfBuffer(type, file)
                new_data == _getFileData(file.id, AddDot(ttype.ext))
                data == [file EXCEPT
                           !.target_type = ttype,
                           !.target = IF file.source_type.mime # ttype.mime
                                      THEN new_data.target ELSE @]
            IN  /\ file' = data
                /\ stats' = [stats EXCEPT
                               !.size.source = @ + data.source_size,
                               !.size.target = @ + data.target_size,
                               !.processed = IF data.buffer # Null
                                             THEN @ + 1 ELSE @]
                /\ pc' = "callback"
                /\ UNCHANGED <<errs, faults>>
    /\ UNCHANGED <<handled, prev, tasks,
                   config, loaded, map, environment, fsTarget, fsDirs,
                   fsContent, fsFiles, fsMapDoc, run, source, target, i,
                   calls>>

\* A write decision that lets no file through.
CallbackNeverWrites ==
    /\ pc = "callback"
    /\ NextIteration
    /\ calls' = IF callback THEN [calls EXCEPT !.callback = @ + 1] ELSE calls
    /\ UNCHANGED <<handled, prev, tasks, faults, config, loaded, map,
                   environment,
                   fsTarget, fsDirs, fsContent, fsFiles, fsMapDoc, run,
                   source, target, stats, errs>>

\* A write decision that sends every file on to the write.
CallbackWritesAll ==
    /\ pc = "callback"
    /\ pc' = IF file.rel # "." THEN "requireDirectory" ELSE "write"
    /\ calls' = IF callback THEN [calls EXCEPT !.callback = @ + 1] ELSE calls
    /\ UNCHANGED <<handled, prev, tasks, faults, config, loaded, map,
                   environment,
                   fsTarget, fsDirs, fsContent, fsFiles, fsMapDoc, run,
                   source, target, stats, i, file, errs>>

\* A write decision that is asked for the files that have an output only.
CallbackForOutputsOnly ==
    /\ pc = "callback"
    /\ \E write \in IF callback /\ file.buffer # Null THEN BOOLEAN ELSE {TRUE} :
         IF ~write \/ file.buffer = Null
         THEN NextIteration
         ELSE /\ pc' = IF file.rel # "." THEN "requireDirectory" ELSE "write"
              /\ UNCHANGED <<i, file>>
    /\ calls' = IF callback /\ file.buffer # Null
                THEN [calls EXCEPT !.callback = @ + 1] ELSE calls
    /\ UNCHANGED <<handled, prev, tasks,
                   faults, config, loaded, map, environment, fsTarget, fsDirs,
                   fsContent, fsFiles, fsMapDoc, run, source, target, stats,
                   errs>>

\* run() lines 990-1002: the write decision.
Callback ==
    /\ pc = "callback"
    /\ \E write \in IF callback THEN BOOLEAN ELSE {TRUE} :
         IF ~write \/ file.buffer = Null
         THEN NextIteration
         ELSE /\ pc' = IF file.rel # "." THEN "requireDirectory" ELSE "write"
              /\ UNCHANGED <<i, file>>
    /\ calls' = IF callback THEN [calls EXCEPT !.callback = @ + 1] ELSE calls
    /\ UNCHANGED <<handled, prev, tasks,
                   faults, config, loaded, map, environment, fsTarget, fsDirs,
                   fsContent, fsFiles, fsMapDoc, run, source, target, stats,
                   errs>>

\* _requireDirectory line 830: whether creation is attempted.
MustCreate(require_dir, st, dirs) ==
    /\ ~InSeq(require_dir, st.dirs.created)
    /\ (dirs[require_dir] = "missing" \/ dirs[require_dir] # "dir")

\* _requireDirectory, lines 826-853, and run() lines 1003-1010.
RequireDirectory ==
    /\ pc = "requireDirectory"
    /\ LET require_dir == file.rel
           asked == [calls EXCEPT !.exists = @ + 1]
       IN  IF MustCreate(require_dir, stats, fsDirs)
           THEN \E answer \in DirAnswers(fsDirs[require_dir]) :
                  /\ calls' = [asked EXCEPT !.mkdir[require_dir] = @ + 1]
                  /\ Failing(fsDirs[require_dir] = "missing" /\ answer # "true")
                  /\ IF answer # "true"
                     THEN /\ errs' = [errs EXCEPT !.dir = @ + 1]
                          /\ UNCHANGED <<fsDirs, fsTarget>>
                          /\ IF error(FALSE)
                             THEN Throw /\ UNCHANGED <<stats, i, file>>
                             ELSE /\ stats' = [stats EXCEPT !.dirs.failed =
                                                 Append(@, require_dir)]
                                  /\ NextIteration
                     ELSE /\ fsDirs' = [fsDirs EXCEPT ![require_dir] = "dir"]
                          /\ fsTarget' = "dir"
                          /\ stats' = [stats EXCEPT !.dirs.created =
                                         Append(@, require_dir)]
                          /\ pc' = "write"
                          /\ UNCHANGED <<errs, i, file>>
           ELSE /\ pc' = "write"
                /\ calls' = asked
                /\ UNCHANGED <<fsDirs, fsTarget, stats, errs, faults, i, file>>
    /\ UNCHANGED <<handled, prev, tasks,
                   config, loaded, map, environment, fsContent, fsFiles,
                   fsMapDoc, run, source, target>>

\* Whether the directory a target path lies in exists.
DirExists(rel) == IF rel = "." THEN fsTarget = "dir" ELSE fsDirs[rel] = "dir"

\* A write step that removes the outputs of the run when a write fails.
WriteFileRollsBack ==
    /\ pc = "write"
    /\ calls' = [calls EXCEPT !.write = @ + 1]
    /\ \E wrote \in IF DirExists(file.rel)
                     THEN {TRUE} \cup (IF CanFail THEN {FALSE} ELSE {})
                     ELSE {FALSE} :
         /\ Failing(DirExists(file.rel) /\ ~wrote)
         /\ IF wrote
            THEN /\ fsFiles' = fsFiles \cup {file.target.path}
                 /\ handled' = [handled EXCEPT !.written = @ \cup {file.id}]
                 /\ stats' = [stats EXCEPT !.written = @ + 1]
                 /\ NextIteration
                 /\ UNCHANGED errs
            ELSE /\ errs' = [errs EXCEPT !.write = @ + 1]
                 /\ fsFiles' = {}
                 /\ UNCHANGED <<stats, handled>>
                 /\ IF error(FALSE) THEN Throw /\ UNCHANGED <<i, file>>
                    ELSE NextIteration
    /\ UNCHANGED <<prev, tasks, config, loaded, map, environment, fsTarget,
                   fsDirs,
                   fsContent, fsMapDoc, run, source, target>>

\* run() lines 1013-1018: write the output.
WriteFile ==
    /\ pc = "write"
    /\ calls' = [calls EXCEPT !.write = @ + 1]
    /\ \E wrote \in IF DirExists(file.rel)
                     THEN {TRUE} \cup (IF CanFail THEN {FALSE} ELSE {})
                     ELSE {FALSE} :
         /\ Failing(DirExists(file.rel) /\ ~wrote)
         /\ IF wrote
            THEN /\ fsFiles' = fsFiles \cup {file.target.path}
                 /\ handled' = [handled EXCEPT !.written = @ \cup {file.id}]
                 /\ stats' = [stats EXCEPT !.written = @ + 1]
                 /\ NextIteration
                 /\ UNCHANGED errs
            ELSE /\ errs' = [errs EXCEPT !.write = @ + 1]
                 /\ UNCHANGED <<fsFiles, stats, handled>>
                 /\ IF error(FALSE) THEN Throw /\ UNCHANGED <<i, file>>
                    ELSE NextIteration
    /\ UNCHANGED <<prev, tasks, config, loaded, map, environment, fsTarget,
                   fsDirs,
                   fsContent, fsMapDoc, run, source, target>>

\* An end of run() that stores the map whether or not fingerprinting is
\* enabled.
PersistUnconditional ==
    /\ pc = "persist"
    /\ fsMapDoc' = PojoDoc(map)
    /\ calls' = [calls EXCEPT !.persist = @ + 1]
    /\ pc' = "done"
    /\ UNCHANGED <<handled, prev, tasks, faults, config, loaded, map,
                   environment,
                   fsTarget, fsDirs, fsContent, fsFiles, run, source, target,
                   stats, i, file, errs>>

\* An end of run() that computes the percent whenever source bytes were
\* counted.
PersistPercentOfSource ==
    /\ pc = "persist"
    /\ IF options.map /\ stats.hashmap # Null
       THEN /\ fsMapDoc' = PojoDoc(map)
            /\ calls' = [calls EXCEPT !.persist = @ + 1]
       ELSE UNCHANGED <<fsMapDoc, calls>>
    /\ stats' = IF stats.size.source # 0
                THEN [stats EXCEPT !.size.percent =
                        round(stats.size.target, stats.size.source)]
                ELSE stats
    /\ pc' = "done"
    /\ UNCHANGED <<handled, prev, tasks, faults, config, loaded, map,
                   environment,
                   fsTarget, fsDirs, fsContent, fsFiles, run, source, target,
                   i, file, errs>>

\* An end of run() that stores the entries of the files this run has
\* fingerprinted and no other.
PersistPruned ==
    /\ pc = "persist"
    /\ IF options.map /\ stats.hashmap # Null
       THEN /\ fsMapDoc' = PojoDoc([k \in Keys |->
                                      IF k \in {KeyOf(id) : id \in handled.upserted}
                                      THEN map[k] ELSE Null])
            /\ calls' = [calls EXCEPT !.persist = @ + 1]
       ELSE UNCHANGED <<fsMapDoc, calls>>
    /\ stats' = IF stats.size.source # 0 /\ stats.size.target # 0
                THEN [stats EXCEPT !.size.percent =
                        round(stats.size.target, stats.size.source)]
                ELSE stats
    /\ pc' = "done"
    /\ UNCHANGED <<handled, prev, tasks, faults, config, loaded, map,
                   environment,
                   fsTarget, fsDirs, fsContent, fsFiles, run, source, target,
                   i, file, errs>>

\* run() lines 1021-1032: store the map, compute the percent, return.
Persist ==
    /\ pc = "persist"
    /\ IF options.map /\ stats.hashmap # Null
       THEN /\ fsMapDoc' = PojoDoc(map)
            /\ calls' = [calls EXCEPT !.persist = @ + 1]
       ELSE UNCHANGED <<fsMapDoc, calls>>
    /\ stats' = IF stats.size.source # 0 /\ stats.size.target # 0
                THEN [stats EXCEPT !.size.percent =
                        round(stats.size.target, stats.size.source)]
                ELSE stats
    /\ pc' = "done"
    /\ UNCHANGED <<handled, prev, tasks,
                   faults, config, loaded, map, environment, fsTarget, fsDirs,
                   fsContent, fsFiles, run, source, target, i, file, errs>>

\* ---------------------------------------------------- concurrent execution
\* run() in concurrent mode: after the setup the pipeline of every file is
\* started at once and run() waits for all of them. Each pipeline is the
\* loop body of run(): it is resumed at its awaits, and the code between two
\* awaits runs without another pipeline in between.

\* The pipeline of one file: its position, its file record, what
\* fs.exists() and fs.dir() have answered it, and how it was counted.
NewTask(id) ==
    [pc |-> "read", file |-> _getFileData(id, Null), exists |-> FALSE,
     created |-> Null, outcome |-> Null]

\* What no file pipeline changes.
fixed == <<config, loaded, environment, fsContent, fsMapDoc, run, source,
           target, i, file, prev>>

\* run() line 972, then the start of all the pipelines.
Launch ==
    /\ pc = "loadPlugins"
    /\ LET r == loadPlugins(1, loaded, 0)
       IN  /\ loaded' = r.loaded
           /\ errs' = [errs EXCEPT !.plugin = @ + r.reported]
           /\ IF r.thrown
              THEN Throw /\ UNCHANGED tasks
              ELSE /\ pc' = "parallel"
                   /\ tasks' = [n \in 1..Len(source.files) |->
                                  NewTask(source.files[n])]
    /\ UNCHANGED <<handled, prev, faults, config, map, environment, fsTarget,
                   fsDirs, fsContent, fsFiles, fsMapDoc, run, source, target,
                   stats, calls, i, file>>

\* Pipeline n is at position at.
At(n, at) == pc = "parallel" /\ tasks[n].pc = at

\* The catch of a failed _optimizeFile, lines 985-987, in pipeline n: the
\* error is thrown on and ends run(), or is reported and the pipeline goes
\* on to the callback.
OptimizeFailedTask(n, kind) ==
    /\ errs' = [errs EXCEPT ![kind] = @ + 1]
    /\ IF error(FALSE)
       THEN Throw /\ UNCHANGED tasks
       ELSE pc' = pc /\ tasks' = [tasks EXCEPT ![n].pc = "callback"]

\* _optimizeFile lines 784-789 in pipeline n.
ReadFileTask(n) ==
    /\ At(n, "read")
    /\ calls' = [calls EXCEPT !.read = @ + 1]
    /\ \E answer \in {"ok"} \cup (IF CanFail THEN {"error"} ELSE {}) :
         IF answer = "error"
         THEN OptimizeFailedTask(n, "read") /\ Failing(TRUE)
         ELSE \E sniffed \in {"null", "type"} :
                LET data == tasks[n].file
                    buf == fsContent[data.id]
                    type == IF sniffed = "null" THEN Undetected
                            ELSE Detected(data.source.ext)
                IN  /\ tasks' = [tasks EXCEPT
                                   ![n].file.source_type =
                                       typeOfBuffer(type, data),
                                   ![n].file.source_size = ByteLength(buf),
                                   ![n].pc = "decide"]
                    /\ pc' = pc
                    /\ UNCHANGED <<errs, faults>>
    /\ UNCHANGED <<fixed, map, handled, stats, fsTarget, fsDirs, fsFiles>>

\* _optimizeFile lines 790-801 in pipeline n.
DecideTask(n) ==
    /\ At(n, "decide")
    /\ LET buf == fsContent[tasks[n].file.id]
           data == [tasks[n].file EXCEPT
                      !.hash = IF options.map THEN Sha256(buf) ELSE Null]
           d == _shouldOptimize(data, options, map)
       IN  /\ map' = d.map
           /\ handled' = IF d.optimize /\ options.map
                         THEN [handled EXCEPT !.upserted = @ \cup {data.id}]
                         ELSE handled
           /\ IF d.optimize
              THEN /\ tasks' = [tasks EXCEPT ![n].file = data,
                                             ![n].pc = "transform"]
                   /\ UNCHANGED stats
              ELSE /\ stats' = [stats EXCEPT !.skipped = @ + 1]
                   /\ tasks' = [tasks EXCEPT ![n].file = data,
                                             ![n].outcome = "skipped",
                                             ![n].pc = "callback"]
    /\ pc' = pc
    /\ UNCHANGED <<fixed, errs, calls, faults, fsTarget, fsDirs, fsFiles>>

\* _optimizeFile lines 804-805 in pipeline n.
TransformTask(n) ==
    /\ At(n, "transform")
    /\ calls' = [calls EXCEPT !.transform = @ + 1]
    /\ \/ CanFail /\ OptimizeFailedTask(n, "transform") /\ Failing(TRUE)
       \/ \E out \in Outputs :
            /\ tasks' = [tasks EXCEPT ![n].file.buffer = out,
                                      ![n].file.target_size = ByteLength(out),
                                      ![n].pc = "retype"]
            /\ pc' = pc
            /\ UNCHANGED <<errs, faults>>
    /\ UNCHANGED <<fixed, map, handled, stats, fsTarget, fsDirs, fsFiles>>

\* _optimizeFile lines 806-817 and run() lines 982-984 in pipeline n.
RetypeTask(n) ==
    /\ At(n, "retype")
    /\ \/ CanFail /\ OptimizeFailedTask(n, "retype") /\ Failing(TRUE)
          /\ UNCHANGED stats
       \/ \E type \in {Undetected, Detected(tasks[n].file.source.ext), Webp} :
            LET old == tasks[n].file
                ttype == typeOfBuffer(type, old)
                new_data == _getFileData(old.id, AddDot(ttype.ext))
                data == [old EXCEPT
                           !.target_type = ttype,
                           !.target = IF old.source_type.mime # ttype.mime
                                      THEN new_data.target ELSE @]
            IN  /\ tasks' = [tasks EXCEPT ![n].file = data,
                                          ![n].outcome = "processed",
                                          ![n].pc = "callback"]
                /\ stats' = [stats EXCEPT
                               !.size.source = @ + data.source_size,
                               !.size.target = @ + data.target_size,
                               !.processed = IF data.buffer # Null
                                             THEN @ + 1 ELSE @]
                /\ pc' = pc
                /\ UNCHANGED <<errs, faults>>
    /\ UNCHANGED <<fixed, map, handled, calls, fsTarget, fsDirs, fsFiles>>

\* run() lines 990-1002 in pipeline n.
CallbackTask(n) ==
    /\ At(n, "callback")
    /\ \E write \in IF callback THEN BOOLEAN ELSE {TRUE} :
         tasks' = [tasks EXCEPT ![n].pc =
                     IF ~write \/ tasks[n].file.buffer = Null THEN "end"
                     ELSE IF tasks[n].file.rel # "." THEN "exists"
                     ELSE "write"]
    /\ pc' = pc
    /\ calls' = IF callback THEN [calls EXCEPT !.callback = @ + 1] ELSE calls
    /\ UNCHANGED <<fixed, map, handled, stats, errs, faults, fsTarget,
                   fsDirs, fsFiles>>

\* _requireDirectory line 829 in pipeline n: the await of fs.exists().
ExistsTask(n) ==
    /\ At(n, "exists")
    /\ calls' = [calls EXCEPT !.exists = @ + 1]
    /\ tasks' = [tasks EXCEPT
                   ![n].exists = fsDirs[tasks[n].file.rel] # "missing",
                   ![n].pc = "check"]
    /\ pc' = pc
    /\ UNCHANGED <<fixed, map, handled, stats, errs, faults, fsTarget, fsDirs,
                   fsFiles>>

\* What fs.dir() can answer in a concurrent run: where another pipeline has
\* created the directory since fs.exists() was asked, nothing is in the way
\* of answering true.
DirAnswersNow(state) ==
    IF state = "dir"
    THEN {"true"} \cup (IF CanFail THEN DirFailures ELSE {})
    ELSE DirAnswers(state)

\* _requireDirectory lines 830-838 in pipeline n: the test, with what
\* fs.exists() answered, and the await of fs.dir().
CheckTask(n) ==
    /\ At(n, "check")
    /\ LET require_dir == tasks[n].file.rel
       IN  IF /\ ~InSeq(require_dir, stats.dirs.created)
              /\ (~tasks[n].exists \/ fsDirs[require_dir] # "dir")
           THEN \E answer \in DirAnswersNow(fsDirs[require_dir]) :
                  /\ calls' = [calls EXCEPT !.mkdir[require_dir] = @ + 1]
                  /\ Failing(fsDirs[require_dir] # "file" /\ answer # "true")
                  /\ fsDirs' = IF answer = "true"
                               THEN [fsDirs EXCEPT ![require_dir] = "dir"]
                               ELSE fsDirs
                  /\ fsTarget' = IF answer = "true" THEN "dir" ELSE fsTarget
                  /\ tasks' = [tasks EXCEPT ![n].created = answer,
                                            ![n].pc = "record"]
           ELSE /\ tasks' = [tasks EXCEPT ![n].pc = "write"]
                /\ UNCHANGED <<calls, faults, fsDirs, fsTarget>>
    /\ pc' = pc
    /\ UNCHANGED <<fixed, map, handled, stats, errs, fsFiles>>

\* _requireDirectory lines 841-852 and run() lines 1004-1009 in pipeline n:
\* after the await of fs.dir().
RecordTask(n) ==
    /\ At(n, "record")
    /\ LET require_dir == tasks[n].file.rel
       IN  IF tasks[n].created # "true"
           THEN /\ errs' = [errs EXCEPT !.dir = @ + 1]
                /\ IF error(FALSE)
                   THEN Throw /\ UNCHANGED <<stats, tasks>>
                   ELSE /\ stats' = [stats EXCEPT !.dirs.failed =
                                       Append(@, require_dir)]
                        /\ tasks' = [tasks EXCEPT ![n].pc = "end"]
                        /\ pc' = pc
           ELSE /\ stats' = [stats EXCEPT !.dirs.created =
                               Append(@, require_dir)]
                /\ tasks' = [tasks EXCEPT ![n].pc = "write"]
                /\ pc' = pc
                /\ UNCHANGED errs
    /\ UNCHANGED <<fixed, map, handled, calls, faults, fsTarget, fsDirs,
                   fsFiles>>

\* A write step that counts from the value stats.written had when the
\* pipelines were started, so that the count of another pipeline is lost.
WriteFileTaskLosesCount(n) ==
    /\ At(n, "write")
    /\ calls' = [calls EXCEPT !.write = @ + 1]
    /\ LET data == tasks[n].file
       IN  \E wrote \in IF DirExists(data.rel)
                        THEN {TRUE} \cup (IF CanFail THEN {FALSE} ELSE {})
                        ELSE {FALSE} :
             /\ Failing(DirExists(data.rel) /\ ~wrote)
             /\ IF wrote
                THEN /\ fsFiles' = fsFiles \cup {data.target.path}
                     /\ handled' = [handled EXCEPT
                                      !.written = @ \cup {data.id}]
                     /\ stats' = [stats EXCEPT
                                    !.written = NewStats(0).written + 1]
                     /\ tasks' = [tasks EXCEPT ![n].pc = "end"]
                     /\ pc' = pc
                     /\ UNCHANGED errs
                ELSE /\ errs' = [errs EXCEPT !.write = @ + 1]
                     /\ UNCHANGED <<fsFiles, stats, handled>>
                     /\ IF error(FALSE)
                        THEN Throw /\ UNCHANGED tasks
                        ELSE /\ tasks' = [tasks EXCEPT ![n].pc = "end"]
                             /\ pc' = pc
    /\ UNCHANGED <<fixed, map, fsTarget, fsDirs>>

\* run() lines 1013-1018 in pipeline n.
WriteFileTask(n) ==
    /\ At(n, "write")
    /\ calls' = [calls EXCEPT !.write = @ + 1]
    /\ LET data == tasks[n].file
       IN  \E wrote \in IF DirExists(data.rel)
                        THEN {TRUE} \cup (IF CanFail THEN {FALSE} ELSE {})
                        ELSE {FALSE} :
             /\ Failing(DirExists(data.rel) /\ ~wrote)
             /\ IF wrote
                THEN /\ fsFiles' = fsFiles \cup {data.target.path}
                     /\ handled' = [handled EXCEPT
                                      !.written = @ \cup {data.id}]
                     /\ stats' = [stats EXCEPT !.written = @ + 1]
                     /\ tasks' = [tasks EXCEPT ![n].pc = "end"]
                     /\ pc' = pc
                     /\ UNCHANGED errs
                ELSE /\ errs' = [errs EXCEPT !.write = @ + 1]
                     /\ UNCHANGED <<fsFiles, stats, handled>>
                     /\ IF error(FALSE)
                        THEN Throw /\ UNCHANGED tasks
                        ELSE /\ tasks' = [tasks EXCEPT ![n].pc = "end"]
                             /\ pc' = pc
    /\ UNCHANGED <<fixed, map, fsTarget, fsDirs>>

\* Every pipeline has ended: run() goes on to line 1021.
Join ==
    /\ pc = "parallel"
    /\ \A n \in DOMAIN tasks : tasks[n].pc = "end"
    /\ pc' = "persist"
    /\ UNCHANGED <<fixed, tasks, map, handled, stats, errs, calls, faults,
                   fsTarget, fsDirs, fsFiles>>

NextParallel ==
    \/ ResolveSource
    \/ ResolveTarget
    \/ LoadPluginsConfig
    \/ LoadMap
    \/ Launch
    \/ \E n \in DOMAIN tasks : ReadFileTask(n)
    \/ \E n \in DOMAIN tasks : DecideTask(n)
    \/ \E n \in DOMAIN tasks : TransformTask(n)
    \/ \E n \in DOMAIN tasks : RetypeTask(n)
    \/ \E n \in DOMAIN tasks : CallbackTask(n)
    \/ \E n \in DOMAIN tasks : ExistsTask(n)
    \/ \E n \in DOMAIN tasks : CheckTask(n)
    \/ \E n \in DOMAIN tasks : RecordTask(n)
    \/ \E n \in DOMAIN tasks : WriteFileTask(n)
    \/ Join
    \/ Persist

\* One run in concurrent mode over the source directory: an existing
\* target, every plugin installed, any state of the sub directories, and a
\* fingerprint document that is absent or that an earlier run has left with
\* or without an entry for the first file.
InitParallel ==
    /\ Constructed
    /\ Idle
    /\ ~options.squash
    /\ options.optionsPath = Null
    /\ runs = 1
    /\ fsSource = "dir"
    /\ fsTarget = "dir"
    /\ fsDirs \in [SubDirs -> {"missing", "dir", "file"}]
    /\ fsContent \in [AllIds -> {"v1"}]
    /\ fsFiles = {}
    /\ fsMapDoc \in {AbsentDoc} \cup EarlierDocs({Head(Listing("dir"))})
    /\ fsConfig = [p \in ConfigPlaces |-> "absent"]
    /\ notInstalled = {}
    /\ faults = 0

ParallelSpec == InitParallel /\ [][NextParallel]_vars

\* ------------------------------------------------------------- the caller
\* The files this run wrote under another extension than their source's:
\* the path with the source's extension is not among the paths written.
WrittenRetyped ==
    {id \in handled.written : _getFileData(id, Null).target.path \notin fsFiles}

\* The caller invokes run() again, on the same instance or on a new one
\* with the same settings; a source file may have been edited meanwhile.
NewRun ==
    /\ pc \in {"done", "thrown"}
    /\ run < runs
    /\ run' = run + 1
    /\ pc' = "idle"
    /\ source' = NoSource
    /\ target' = NoTarget
    /\ stats' = NewStats(0)
    /\ i' = 0
    /\ file' = NoFile
    /\ errs' = NoErrs
    /\ calls' = NoCalls
    /\ handled' = NoneHandled
    /\ \/ UNCHANGED <<loaded, map, options>>
       \/ /\ loaded' = <<>>
          /\ map' = EmptyMap
          /\ options' = [options EXCEPT !.plugins = "defaults"]
    /\ \E edited \in {{}} \cup {{source.files[n]} : n \in 1..Len(source.files)} :
         /\ fsContent' = [id \in AllIds |->
                            IF id \in edited
                            THEN CHOOSE c \in Contents : c # fsContent[id]
                            ELSE fsContent[id]]
         /\ prev' = [done |-> pc = "done", readErrs |-> errs.read,
                     unwritten |-> handled.upserted \ handled.written,
                     retyped |-> WrittenRetyped,
                     edited |-> edited]
    /\ fsFiles' = {}
    /\ UNCHANGED <<faults, strict, callback, environment, fsTarget, fsDirs,
                   fsMapDoc, tasks>>

Next ==
    \/ ResolveSource
    \/ ResolveTarget
    \/ LoadPluginsConfig
    \/ LoadMap
    \/ LoadPlugins
    \/ ReadFile
    \/ Decide
    \/ Transform
    \/ Retype
    \/ Callback
    \/ RequireDirectory
    \/ WriteFile
    \/ Persist
    \/ NewRun

Spec == Init /\ [][Next]_vars

\* run() is a chain of awaited steps: a run that has been called and has
\* neither returned nor thrown is resumed by the runtime. Nothing obliges
\* the caller to call run() again.
RunStep ==
    \/ ResolveSource \/ ResolveTarget \/ LoadPluginsConfig \/ LoadMap
    \/ LoadPlugins \/ ReadFile \/ Decide \/ Transform \/ Retype \/ Callback
    \/ RequireDirectory \/ WriteFile \/ Persist

FairSpec == Spec /\ WF_vars(RunStep)

\* ================================================================ properties
\* The hash of the content of the file the loop is at, and its map key.
NewHash == Sha256(fsContent[file.id])
FileKey == KeyOf(file.id)
InLoopBody == pc \in {"decide", "transform", "retype", "callback",
                      "requireDirectory", "write"}

\* C1: the skip decision returns false (the file is skipped), leaving the
\* map as it was, exactly when fingerprinting is enabled and the hash stored
\* under the file's key equals the new hash; with a missing or a different
\* stored hash, or with fingerprinting disabled, it returns true.
C1_SkipExactlyOnEqualHash ==
    [][pc = "decide" =>
         LET hit == options.map /\ map[FileKey] = NewHash
         IN  /\ hit <=> (pc' = "callback" /\ stats'.skipped = stats.skipped + 1)
             /\ ~hit <=> (pc' = "transform" /\ stats'.skipped = stats.skipped)
             /\ hit => map' = map]_vars

\* A file has just been skipped on an equal stored hash.
C1_Witness ==
    /\ pc = "callback"
    /\ options.map
    /\ file.buffer = Null
    /\ file.hash = NewHash
    /\ map[FileKey] = NewHash
    /\ stats.skipped > 0
    /\ calls.transform = 0

\* C2 as stated: whenever the decision returns true -- fingerprinting
\* disabled included -- the map holds key -> new hash before the transform.
C2_UpsertInEveryTrueCase ==
    pc = "transform" => map[FileKey] = NewHash

\* C2: when the decision returns true with fingerprinting enabled (no entry
\* or a different hash), the map holds key -> new hash, and no other entry
\* changed, immediately after the decision and before the transform starts;
\* with fingerprinting disabled the decision leaves the map unchanged.
C2_UpsertWhenEnabled ==
    /\ [](pc = "transform" /\ options.map => map[FileKey] = NewHash)
    /\ [][pc = "decide" /\ pc' = "transform" =>
            IF options.map
            THEN map' = [map EXCEPT ![FileKey] = NewHash]
            ELSE map' = map]_vars

\* The transform is about to start on a file whose stored hash was stale.
C2_Witness ==
    /\ pc = "transform"
    /\ options.map
    /\ file.id \in handled.upserted
    /\ map[FileKey] = NewHash
    /\ fsMapDoc.kind = "pojo"
    /\ JSONParse(fsMapDoc.text)[FileKey] \notin {Null, NewHash}

\* This run follows a completed run, and no source file was edited between.
Repeated == run > 1 /\ prev.done /\ prev.edited = {}

UpsertsKept ==
    options.map =>
        \A id \in handled.upserted : map[KeyOf(id)] = Sha256(fsContent[id])

\* The entries of a lenient run that ended are in the stored document.
UpsertsStored ==
    (pc = "done" /\ ~strict /\ options.map) =>
        /\ fsMapDoc.kind = "pojo"
        /\ \A id \in handled.upserted :
              JSONParse(fsMapDoc.text)[KeyOf(id)] = Sha256(fsContent[id])

\* The decision is taken on a file that the lenient run before upserted
\* and never wrote, and that was not edited since.
DecidingUnwritten ==
    /\ pc = "decide"
    /\ ~strict /\ options.map
    /\ run > 1 /\ prev.done
    /\ file.id \in prev.unwritten \ prev.edited

Skips == pc' = "callback" /\ stats'.skipped = stats.skipped + 1

C5_ProcessedWithoutMap ==
    ~options.map =>
        /\ stats.skipped = 0
        /\ pc = "done" =>
             stats.processed = stats.sources - (errs.read + errs.transform)

\* The number of errors reported to error() in this run.
Reported ==
    errs.plugin + errs.map + errs.read + errs.transform + errs.retype
        + errs.dir + errs.write

\* C6: in strict mode the first error of any kind makes run() throw, and
\* after it nothing happens but, possibly, the caller's next call of run():
\* no further file is read, transformed or written.
C6_StrictThrowsOnFirstError ==
    /\ [](strict /\ Reported > 0 => pc = "thrown" /\ Reported = 1)
    /\ [][pc = "thrown" => pc' = "idle" /\ run' = run + 1]_vars

\* A strict run has thrown on a failed transform with files left unvisited.
C6_Witness ==
    /\ strict
    /\ pc = "thrown"
    /\ errs.transform = 1
    /\ Reported = 1
    /\ i < Len(source.files)
    /\ calls.read = i
    /\ calls.write = 0

\* The plugin options document can be read (its parse error is thrown by
\* the setup, whatever the mode, and is no per-file failure).
ConfigReadable == ~_loadPluginsConfig(options.optionsPath, fsConfig).throw

\* A lenient run whose source and target are resolved.
LenientResolved == ~strict /\ target # NoTarget /\ ConfigReadable

\* C7: in lenient mode, once source and target are resolved, no per-file
\* read, transform, directory or write failure makes run() throw; every
\* source file is visited and run() eventually returns the stats.
C7_LenientRunReturns ==
    /\ [](LenientResolved => pc # "thrown")
    /\ [](LenientResolved /\ pc = "done" =>
            i = Len(source.files) /\ calls.read = stats.sources)
    /\ (LenientResolved ~> pc = "done")

\* A lenient run has returned after a per-file failure on its first file.
C7_Witness ==
    /\ LenientResolved
    /\ pc = "done"
    /\ errs.read + errs.transform + errs.retype + errs.dir + errs.write > 0
    /\ stats.sources = MaxFiles
    /\ calls.read = MaxFiles
    /\ stats.written < stats.sources

\* The source is missing or holds no matching file, or the target exists
\* and is no directory.
BadSource == fsSource \in {"missing", "empty"}
BadTarget == fsTarget = "file"

\* C8: in both modes a missing source, a source directory without matching
\* file and a target that is no directory make run() throw before any file
\* is read or written and before the fingerprint document is read or stored.
C8_SetupErrorsThrowFirst ==
    /\ [](BadSource \/ BadTarget =>
            /\ pc \in {"idle", "resolveTarget", "thrown"}
            /\ calls = NoCalls
            /\ fsFiles = {}
            /\ handled = NoneHandled)
    /\ [][pc = "idle" /\ BadSource => pc' = "thrown"]_vars
    /\ [][pc = "resolveTarget" /\ BadTarget => pc' = "thrown"]_vars

\* A lenient run has thrown on a target that is a file.
C8_Witness ==
    /\ ~strict
    /\ pc = "thrown"
    /\ ~BadSource /\ BadTarget
    /\ source # NoSource
    /\ calls = NoCalls
    /\ options.map /\ fsMapDoc # AbsentDoc

\* C9: in a lenient run no file is written into a directory whose creation
\* has failed in this run.
C9_NoWriteIntoFailedDirectory ==
    [][(pc = "write" /\ ~strict /\ stats'.written = stats.written + 1)
         => ~InSeq(file.rel, stats.dirs.failed)]_vars

\* C10: within one run the creation of a target directory is attempted at
\* most once, also when the first attempt failed.
C10_CreationAttemptedOnce ==
    \A d \in SubDirs : calls.mkdir[d] <= 1

\* The run has ended, by returning or by throwing.
Ended == pc \in {"done", "thrown"}

\* C11 as stated: in every run with fingerprinting enabled and a map path
\* resolved the document is written exactly once, and never otherwise.
C11_StoredOncePerRun ==
    Ended =>
        calls.persist = IF options.map /\ stats.hashmap # Null THEN 1 ELSE 0

\* C11: the document is written at most once per run, only after the last
\* file's pipeline has finished and only with fingerprinting enabled and a
\* map path resolved; a run that returns with fingerprinting enabled has
\* written it exactly once, a run that throws has not written it, and with
\* fingerprinting disabled it is never written.
C11_StoredOnceWhenReturning ==
    /\ [](calls.persist <= 1)
    /\ [](calls.persist = 1 =>
            /\ pc = "done"
            /\ options.map /\ stats.hashmap # Null
            /\ i = Len(source.files))
    /\ [](pc = "done" /\ options.map => calls.persist = 1)
    /\ [][fsMapDoc' # fsMapDoc =>
            pc = "persist" /\ options.map /\ calls'.persist = 1]_vars

\* A run with fingerprinting enabled has returned and stored its upserts.
C11_Witness ==
    /\ pc = "done"
    /\ options.map
    /\ calls.persist = 1
    /\ handled.upserted # {}
    /\ fsMapDoc = PojoDoc(map)
    /\ i = Len(source.files)

\* The output of the file the loop is at was given another extension than
\* the source has.
Retyped ==
    /\ pc \in {"callback", "requireDirectory", "write"}
    /\ file.buffer # Null
    /\ file.target.ext # file.source.ext

\* The decision is taken on a file that the run before wrote under another
\* extension.
DecidingRetyped ==
    /\ pc = "decide"
    /\ options.map
    /\ run > 1
    /\ file.id \in prev.retyped

Reprocesses == pc' = "transform" /\ stats'.skipped = stats.skipped

\* The key does not depend on the output extension: the entry of a
\* re-typed file is under relative directory + source name + source
\* extension, and re-typing changes no entry.
KeyFromSource ==
    /\ [](Retyped /\ options.map =>
            map[PathJoin(file.rel, file.source.name, file.source.ext)]
                = file.hash)
    /\ [][pc = "retype" => map' = map]_vars

C13_PercentZeroWithoutBytes ==
    (stats.size.source = 0 \/ stats.size.target = 0) => stats.size.percent = 0

\* A run has returned having counted source bytes and only empty outputs.
C13_Witness ==
    /\ pc = "done"
    /\ stats.processed > 0
    /\ stats.size.source > 0
    /\ stats.size.target = 0
    /\ stats.size.percent = 0

\* C14: whenever _resolveSource returns, the file list is not empty; for a
\* single file it is that file alone, whatever its extension, and root is
\* the file's directory; for a directory root is the resolved directory and
\* every listed file has an extension of the allow-list.
C14_ResolvedSource ==
    source # NoSource =>
        /\ Len(source.files) > 0
        /\ fsSource \in SourceFiles =>
             /\ source.root = "dirname"
             /\ source.files = <<IF fsSource = "file" THEN SingleId
                                  ELSE TextId>>
        /\ fsSource \in SourceDirs =>
             /\ source.root = "resolved"
             /\ \A n \in 1..Len(source.files) :
                   Substr1(FileOf(source.files[n]).ext) \in Extensions

\* C15: whenever _resolveTarget returns, the target is an existing
\* directory, whatever the existence check and the creation call answered;
\* a missing target is created, and a target that exists and is no
\* directory makes it throw.
C15_ResolvedTargetIsDirectory ==
    /\ [][pc = "resolveTarget" /\ pc' # "thrown" =>
            /\ fsTarget' = "dir"
            /\ target'.exists
            /\ fsTarget = "missing" => target'.created = "true"]_vars
    /\ [][pc = "resolveTarget" /\ fsTarget = "file" => pc' = "thrown"]_vars

\* The loop leaves the file it is at and goes to the next or to the end.
LeavesFile == pc' \in {"read", "persist"}

\* The calls made to the collaborators of the pipeline (storage, optimizer),
\* the invocations of the caller's callback left aside.
Collaborators(c) == [c EXCEPT !.callback = 0]

\* C16: when the write-decision callback returns false for a file, no
\* directory is created and nothing is written for it, and stats.written is
\* unchanged; without a callback every file whose transform succeeded goes
\* on to the write step.
C16_VetoWritesNothing ==
    /\ [][pc = "callback" /\ callback /\ file.buffer # Null /\ LeavesFile =>
            /\ stats' = stats
            /\ fsDirs' = fsDirs /\ fsTarget' = fsTarget
            /\ fsFiles' = fsFiles
            /\ handled' = handled
            /\ Collaborators(calls') = Collaborators(calls)]_vars
    /\ [][pc = "callback" /\ ~callback /\ file.buffer # Null =>
            /\ pc' = IF file.rel # "." THEN "requireDirectory" ELSE "write"
            /\ file' = file]_vars

\* A run has returned after the callback vetoed every transformed file.
C16_Witness ==
    /\ pc = "done"
    /\ callback
    /\ stats.sources = MaxFiles
    /\ stats.processed = stats.sources
    /\ stats.written = 0
    /\ Reported = 0
    /\ calls.write = 0
    /\ calls.mkdir = [d \in SubDirs |-> 0]
    /\ fsFiles = {}

\* C17: a file the decision says to skip adds exactly one to stats.skipped
\* and its pipeline ends there: no transform, no directory, no write, and
\* processed, written and the size totals stay as they are.
C17_SkipEndsPipeline ==
    /\ [][pc = "decide" /\ pc' # "transform" =>
            /\ stats' = [stats EXCEPT !.skipped = stats.skipped + 1]
            /\ pc' = "callback"
            /\ file'.buffer = Null
            /\ calls' = calls
            /\ fsDirs' = fsDirs /\ fsFiles' = fsFiles]_vars
    /\ [][pc = "callback" /\ file.buffer = Null =>
            /\ LeavesFile
            /\ stats' = stats
            /\ Collaborators(calls') = Collaborators(calls)
            /\ handled' = handled
            /\ fsDirs' = fsDirs /\ fsFiles' = fsFiles]_vars

\* A run has returned having skipped every file.
C17_Witness ==
    /\ pc = "done"
    /\ stats.sources = MaxFiles
    /\ stats.skipped = stats.sources
    /\ stats.processed = 0 /\ stats.written = 0
    /\ stats.size.source = 0 /\ stats.size.target = 0
    /\ calls.transform = 0 /\ calls.write = 0
    /\ calls.mkdir = [d \in SubDirs |-> 0]
    /\ fsFiles = {}

\* The places looked at, in order of priority, and the first of them that
\* holds an existing, parseable, non-empty document (Null if none does).
PlacesInOrder ==
    (IF options.optionsPath # Null THEN <<"opt">> ELSE <<>>) \o <<"cwd", "src">>
Qualifying == SelectSeq(PlacesInOrder, LAMBDA p : fsConfig[p] = "valid")
FirstQualifying == IF Len(Qualifying) > 0 THEN Qualifying[1] ELSE Null

\* C18: the plugin options are taken from the first of explicit path,
\* working directory and source root that holds an existing, parseable,
\* non-empty document; an empty document at a place of higher priority does
\* not keep a lower place from being used; if none qualifies the defaults
\* stay in effect.
C18_FirstQualifyingConfig ==
    [][pc = "loadPluginsConfig" /\ pc' # "thrown" =>
         options'.plugins = IF FirstQualifying # Null THEN FirstQualifying
                            ELSE options.plugins]_vars

\* Fingerprinting is enabled and the squash flag is set.
Squashing == options.map /\ options.squash

\* The keys of the files whose hash this run upserted.
HandledKeys == {KeyOf(id) : id \in handled.upserted}

\* C19: with fingerprinting enabled and squash set no stored map is loaded
\* and the run starts from an empty map, so that no file is skipped; the
\* document stored at the end replaces the old one and holds only keys of
\* files handled in this run.
C19_SquashStartsEmpty ==
    /\ [][pc = "loadMap" /\ Squashing =>
            map' = EmptyMap /\ calls'.loadmap = 0]_vars
    /\ [](Squashing => stats.skipped = 0)
    /\ [](Squashing /\ pc = "done" =>
            /\ fsMapDoc = PojoDoc(map)
            /\ \A k \in Keys : map[k] # Null => k \in HandledKeys)

\* The error list of a file record: its property "errors", which is
\* undefined (no list) on the records _getFileData builds.
FileErrors(f) == IF "errors" \in DOMAIN f THEN f.errors ELSE <<>>

\* This step reports a read, transform, directory or write error.
PerFileErrorStep ==
    \E k \in {"read", "transform", "dir", "write"} : errs'[k] = errs[k] + 1

\* After the error the loop is done with the file: it is at the callback
\* with no output to write, or it has gone to the next file or to the end.
DoneWithFile == (pc' = "callback" /\ file'.buffer = Null) \/ LeavesFile

\* C20: in lenient mode every per-file error (read, transform, directory
\* creation, write) is recorded on the file's own error list and reported
\* without a throw, and processing continues with the next file.
C20_LenientErrorsRecorded ==
    [][~strict /\ PerFileErrorStep =>
         /\ pc' # "thrown"
         /\ DoneWithFile
         /\ file'.id = file.id =>
              Len(FileErrors(file')) = Len(FileErrors(file)) + 1]_vars

\* The pipeline of the file the loop is at starts, runs, or has just ended.
AtFile == pc \in {"read", "decide", "transform", "retype", "callback",
                  "requireDirectory", "write"}
\* The positions at which the pipeline of a file ends: the continue
\* statements and the write attempt; before the first file, the setup.
PipelineEnd == pc \in {"loadPlugins", "callback", "requireDirectory", "write"}
\* The files before position n of the list.
Before(n) == {source.files[m] : m \in 1..(n - 1)}

\* C21: the files are processed one at a time in the order of the list: the
\* pipeline is always at file i of the list, i moves on by one and only
\* where the pipeline of file i has ended, so that every read, directory
\* creation and write is that of file i and comes after those of the files
\* before it and before those of the files after it.
C21_SequentialSourceOrder ==
    /\ [](AtFile => i \in 1..Len(source.files) /\ file.id = source.files[i])
    /\ [](AtFile => handled.written \cup handled.upserted
                       \subseteq Before(i) \cup {file.id})
    /\ [][run' = run /\ i' # i => i' = i + 1 /\ PipelineEnd]_vars
    /\ [][run' = run /\ calls'.read # calls.read =>
            pc = "read" /\ handled.written \subseteq Before(i)]_vars
    /\ [][run' = run /\ handled'.written # handled.written =>
            /\ pc = "write"
            /\ handled'.written = handled.written \cup {source.files[i]}
            /\ handled.written \subseteq Before(i)]_vars
    /\ [][run' = run /\ calls'.mkdir # calls.mkdir =>
            /\ pc = "requireDirectory"
            /\ \A d \in SubDirs : calls'.mkdir[d] # calls.mkdir[d] =>
                 d = FileOf(source.files[i]).rel]_vars

\* The second file of the list is written after the first one was.
C21_Witness ==
    /\ pc = "persist"
    /\ Len(source.files) = MaxFiles
    /\ handled.written = {source.files[n] : n \in 1..Len(source.files)}
    /\ \E d \in SubDirs : calls.mkdir[d] = 1

\* How often a path occurs in a list of paths.
Occurrences(d, list) == Cardinality({n \in 1..Len(list) : list[n] = d})
\* An attempt of this run to create directory d failed: more attempts were
\* made than the one that is recorded in stats.dirs.created.
CreationFailed(d) == calls.mkdir[d] > Occurrences(d, stats.dirs.created)

\* C22: in a run that has not thrown, every directory whose creation failed
\* is listed in stats.dirs.failed exactly once, and no other directory is
\* listed.
C22_FailedListedOnce ==
    pc # "thrown" =>
        \A d \in SubDirs :
            Occurrences(d, stats.dirs.failed)
              = IF CreationFailed(d) THEN 1 ELSE 0

\* _requireDirectory is called for a directory that this run has created.
Memoized == pc = "requireDirectory" /\ InSeq(file.rel, stats.dirs.created)

\* C23: called for a directory that is in stats.dirs.created,
\* _requireDirectory returns true, performs no storage operation (no
\* existence check, no creation) and leaves created and failed unchanged.
C23_MemoizedWithoutStorage ==
    [][Memoized =>
         /\ pc' = "write"
         /\ calls' = calls
         /\ fsDirs' = fsDirs
         /\ stats'.dirs = stats.dirs]_vars

\* This step leaves the loop at the same file record.
SameFile == run' = run /\ file.id # 0 /\ file'.id = file.id

\* C24: the record of a file starts with the target path that mirrors the
\* source path; afterwards the target path changes only in the retype step
\* and only when the mime detected in the output differs from the mime of
\* the source; the new path has the same directory and base name and the
\* extension of the detected type; the relative directory never changes.
C24_TargetChangesOnlyInRetype ==
    /\ [][file'.id # 0 /\ (file'.id # file.id \/ run' # run) =>
            /\ file'.target.path = file'.source.path
            /\ file'.target.dir = file'.rel]_vars
    /\ [][SameFile => file'.rel = file.rel /\ file'.source = file.source]_vars
    /\ [][SameFile /\ file'.target # file.target =>
            /\ pc = "retype" /\ pc' = "callback"
            /\ file'.target_type.mime # file.source_type.mime
            /\ file'.target.dir = file.target.dir
            /\ file'.target.name = file.target.name
            /\ file'.target.ext = AddDot(file'.target_type.ext)
            /\ file'.target.path =
                 PathJoin(file.target.dir, file.target.name,
                          file'.target.ext)]_vars

\* A file in a sub directory has been given a target path under another
\* extension.
C24_Witness ==
    /\ pc = "callback"
    /\ file.buffer # Null
    /\ file.rel # "."
    /\ file.target.path # file.source.path
    /\ file.target.dir = file.rel

\* This step reports a failed read, a failed transform.
ReadFails == errs'.read = errs.read + 1
TransformFails == errs'.transform = errs.transform + 1

\* C25: in lenient mode a file whose read or transform fails has no output
\* bytes, adds nothing to processed, written, skipped and the size totals
\* and is not written: the failure leads to the write decision without a
\* buffer, from where the loop goes to the next file with storage and
\* statistics as they were; a file whose read fails has not touched the
\* fingerprint map.
C25_FailedFileLeavesNothing ==
    /\ [][~strict /\ (ReadFails \/ TransformFails) =>
            /\ pc' = "callback"
            /\ file'.buffer = Null
            /\ file'.id \notin handled'.written
            /\ stats' = stats
            /\ fsFiles' = fsFiles]_vars
    /\ [][~strict /\ ReadFails =>
            /\ map' = map
            /\ file.id \notin handled'.upserted]_vars
    /\ [][~strict /\ pc = "callback" /\ file.buffer = Null =>
            /\ pc' \in {"read", "persist"}
            /\ i' = i
                 \/ (i' = i + 1 /\ file'.id = source.files[i + 1])
            /\ stats' = stats
            /\ map' = map
            /\ handled'.written = handled.written
            /\ calls'.write = calls.write
            /\ fsFiles' = fsFiles]_vars

\* A lenient run has returned after the transform of its first file failed
\* and the second file was written.
C25_Witness ==
    /\ pc = "done"
    /\ ~strict
    /\ errs.transform = 1
    /\ Len(source.files) = MaxFiles
    /\ handled.written = {source.files[n] : n \in 2..Len(source.files)}
    /\ stats.processed = MaxFiles - 1
    /\ stats.written = MaxFiles - 1
    /\ stats.skipped = 0

\* _loadMap is about to read an existing document that cannot be read or
\* parsed.
UnreadableLoad ==
    /\ pc = "loadMap"
    /\ options.map /\ ~options.squash
    /\ fsMapDoc.kind = "corrupt"

Unavailable == {n \in 1..Len(Plugins) : Plugins[n] \in notInstalled}
AlreadyDefined == {n \in 1..Len(Plugins) : InSeq(Plugins[n], loaded)}

\* C30: in lenient mode the loading of the plugins does not throw; every
\* plugin whose module cannot be loaded is reported and is not among the
\* loaded plugins afterwards, every other plugin is among them, and the
\* run goes on to its first file with the plugins that loaded, were it none.
C30_UnavailableBackendExcluded ==
    [][~strict /\ pc = "loadPlugins" =>
         /\ pc' = "read"
         /\ errs'.plugin = errs.plugin
                           + Cardinality(Unavailable \cup AlreadyDefined)
         /\ \A n \in 1..Len(Plugins) :
              InSeq(Plugins[n], loaded') <=> n \notin Unavailable]_vars

\* A lenient run has returned having processed its files with one plugin
\* loaded and the other one reported as not installed.
C30_Witness ==
    /\ pc = "done"
    /\ ~strict
    /\ Cardinality(Unavailable) = 1
    /\ errs.plugin = 1
    /\ Len(loaded) = Len(Plugins) - 1
    /\ stats.processed = stats.sources

\* A concurrent run has started its pipelines.
Concurrent == pc \in {"parallel", "persist", "done"} /\ tasks # <<>>

\* C26: in a concurrent run the creation of a directory that is missing is
\* attempted by one pipeline only, however many files are destined for it,
\* and the directory is recorded once, as created or as failed.
C26_CreationAtomicPerDirectory ==
    Concurrent =>
        \A d \in SubDirs :
            fsDirs[d] # "file" =>
                /\ calls.mkdir[d] <= 1
                /\ Occurrences(d, stats.dirs.created)
                     + Occurrences(d, stats.dirs.failed) <= 1

\* The map as _loadMap left it at the start of this run.
LoadedMap == _loadMap(options, fsMapDoc, EmptyMap).map
\* The keys of the files whose hash this run has upserted.
UpsertedKeys == {KeyOf(id) : id \in handled.upserted}
\* Pipeline n takes its skip decision in this step.
Decides(n) == At(n, "decide") /\ tasks'[n].pc # "decide"

\* C27: in a concurrent run the comparison and the upsert of a file are one
\* step, made on the map as it is at that moment; under every interleaving
\* the map holds the hash of every file that has taken its skip decision,
\* and every other entry is as it was loaded: no upsert is lost.
C27_UpsertsSerialized ==
    /\ [][\A n \in DOMAIN tasks : Decides(n) =>
            LET name == KeyOf(tasks[n].file.id)
                hash == Sha256(fsContent[tasks[n].file.id])
            IN  IF options.map /\ map[name] = hash
                THEN tasks'[n].pc = "callback" /\ map' = map
                ELSE /\ tasks'[n].pc = "transform"
                     /\ map' = IF options.map
                               THEN [map EXCEPT ![name] = hash]
                               ELSE map]_vars
    /\ [](Concurrent =>
            \A n \in DOMAIN tasks :
                tasks[n].pc \notin {"read", "decide"} /\ options.map
                  /\ tasks[n].file.hash # Null =>
                    map[KeyOf(tasks[n].file.id)] = tasks[n].file.hash)
    /\ [](Concurrent =>
            \A id \in handled.upserted :
                map[KeyOf(id)] = Sha256(fsContent[id]))
    /\ [](Concurrent /\ pc # "done" =>
            \A k \in Keys \ UpsertedKeys : map[k] = LoadedMap[k])

\* Both pipelines of a concurrent run are past their skip decision, neither
\* has ended, and the map holds the hashes of both files.
C27_Witness ==
    /\ pc = "parallel"
    /\ Len(tasks) = MaxFiles
    /\ \A n \in DOMAIN tasks :
         /\ tasks[n].pc \in {"transform", "retype"}
         /\ map[KeyOf(tasks[n].file.id)] = tasks[n].file.hash
         /\ tasks[n].file.hash # Null
    /\ handled.upserted = {tasks[n].file.id : n \in DOMAIN tasks}

\* The pipelines of a concurrent run that were counted as skipped, as
\* processed.
Counted(outcome) == {n \in DOMAIN tasks : tasks[n].outcome = outcome}
\* The source and the output bytes of the first n pipelines that were
\* counted as processed.
RECURSIVE SizeTotal(_, _)
SizeTotal(n, which) ==
    IF n = 0 THEN 0
    ELSE SizeTotal(n - 1, which)
         + (IF tasks[n].outcome = "processed"
            THEN IF which = "source" THEN tasks[n].file.source_size
                 ELSE tasks[n].file.target_size
            ELSE 0)

\* C28: in a concurrent run no increment is lost: under every interleaving
\* each counter is the number of pipelines with that outcome and each size
\* total is the sum over the processed files, which is what a run over
\* the same files one after the other with the same outcomes counts.
C28_NoIncrementLost ==
    Concurrent =>
        /\ stats.skipped = Cardinality(Counted("skipped"))
        /\ stats.processed = Cardinality(Counted("processed"))
        /\ stats.written = Cardinality(handled.written)
        /\ stats.size.source = SizeTotal(Len(tasks), "source")
        /\ stats.size.target = SizeTotal(Len(tasks), "target")

\* A concurrent run has returned with every file processed and written.
C28_Witness ==
    /\ pc = "done"
    /\ Len(tasks) = MaxFiles
    /\ stats.processed = MaxFiles
    /\ stats.written = MaxFiles
    /\ stats.size.source = SizeTotal(Len(tasks), "source")
    /\ stats.size.source > stats.size.target
    /\ stats.size.target > 0

\* C31: in every state of a run written <= processed <= sources: no file
\* is written without having been counted as processed.
C31_WrittenWithinProcessed ==
    /\ stats.written <= stats.processed
    /\ stats.processed <= stats.sources

\* The files of this run that were skipped, processed, or whose read,
\* transform or type detection failed.
Accounted ==
    stats.skipped + stats.processed
        + errs.read + errs.transform + errs.retype

\* C32: at the end of a lenient run every source file is accounted for
\* exactly once, skipped + processed + (files whose read, transform or
\* retype failed) = sources; during the run the files before the current
\* one are accounted for once each, and the current one once from the end
\* of its optimize attempt on, so none is both skipped and processed.
C32_EveryFileAccountedOnce ==
    ~strict =>
        /\ pc = "done" => Accounted = stats.sources
        /\ pc \in {"read", "decide", "transform", "retype"} =>
               Accounted = i - 1
        /\ pc \in {"callback", "requireDirectory", "write"} => Accounted = i

\* A lenient run over two files has ended: one file was skipped and the
\* optimize attempt of the other failed.
C32_Witness ==
    /\ pc = "done"
    /\ ~strict
    /\ stats.sources = 2
    /\ stats.skipped = 1
    /\ errs.read + errs.transform + errs.retype = 1

\* C33: in every state stats.dirs.created has no duplicate entry and shares
\* no directory with stats.dirs.failed.
C33_CreatedDisjointFromFailed ==
    \A d \in SubDirs :
        /\ Occurrences(d, stats.dirs.created) <= 1
        /\ ~(InSeq(d, stats.dirs.created) /\ InSeq(d, stats.dirs.failed))

\* The write step stores the output of the current file.
Stores == pc = "write" /\ stats'.written = stats.written + 1

\* C34: within one run no file is written to a target path that another
\* file of the run was written to, also after the retype step has changed
\* extensions.
C34_TargetPathsDistinct ==
    [][Stores => file.target.path \notin fsFiles]_vars

\* The entries of a fingerprint document on storage.
Stored(doc) == IF doc.kind = "pojo" THEN JSONParse(doc.text) ELSE EmptyMap

\* C35: every entry this run loads from the persisted document, under a
\* key whose file the run does not fingerprint anew, is on storage with the
\* same hash after every step of the run, the store at its end included:
\* the map is never pruned.
C35_UnhandledEntriesKept ==
    [][\A k \in Keys \ UpsertedKeys :
         LoadedMap[k] # Null => Stored(fsMapDoc')[k] = LoadedMap[k]]_vars

\* A run over a single file has stored the map: the document held an entry
\* of a file outside the source set, the run has loaded it and has recorded
\* a new hash for its own file.
C35_Witness ==
    /\ pc = "done"
    /\ options.map
    /\ ~options.squash
    /\ calls.loadmap = 1
    /\ calls.persist = 1
    /\ fsSource = "file"
    /\ handled.upserted = {SingleId}
    /\ Stored(fsMapDoc)[KeyOf(ForeignId)] # Null

\* C36: in a lenient run with a write-decision callback the callback has
\* been invoked once for each file before the current one while the
\* optimize attempt of the current file is under way, when no directory has
\* been required and nothing written for the current file, once for the
\* current file too when its directory is required or its output written,
\* and once for every source file when the loop has ended, whether the file
\* was skipped, failed or processed.
C36_CallbackOncePerFile ==
    (~strict /\ callback) =>
        /\ pc \in {"read", "decide", "transform", "retype", "callback"} =>
               /\ calls.callback = i - 1
               /\ calls.exists <= i - 1
               /\ calls.write <= i - 1
        /\ pc \in {"requireDirectory", "write"} => calls.callback = i
        /\ pc \in {"persist", "done"} => calls.callback = stats.sources

\* A lenient run with a callback has ended: the callback was invoked for
\* both files, one of which was skipped while the optimize attempt of the
\* other failed.
C36_Witness ==
    /\ pc = "done"
    /\ ~strict
    /\ callback
    /\ stats.sources = 2
    /\ calls.callback = 2
    /\ stats.skipped = 1
    /\ errs.read + errs.transform = 1

\* C37: a run() after the first, in strict mode with every configured
\* backend loadable, does not throw when it loads the backends, and with
\* fingerprinting it leaves the load of the map with the entries of the
\* stored document, not with entries an earlier run left in memory.
C37_SecondRunRepeatable ==
    [][(run > 1 /\ strict /\ notInstalled = {}) =>
         /\ pc = "loadPlugins" => pc' # "thrown"
         /\ (pc = "loadMap" /\ pc' = "loadPlugins" /\ options.map
                 /\ ~options.squash) =>
                map' = Stored(fsMapDoc)]_vars

\* The size totals of the stats object.
Sizes(st) == <<st.size.source, st.size.target>>

\* C38: the size totals are the sums of source_size and target_size over
\* the files counted in stats.processed: they are zero while no file is
\* counted, a step that counts a file adds the raw size of that file and the
\* size of its output, and no other step of the run changes them, so that
\* skipped and failed files add nothing.
C38_SizesSumOverProcessed ==
    /\ [](stats.processed = 0 => Sizes(stats) = <<0, 0>>)
    /\ [][CASE stats'.processed = stats.processed + 1 ->
                 /\ file'.id = file.id
                 /\ file'.source_size = ByteLength(fsContent[file.id])
                 /\ file'.target_size = ByteLength(file.buffer)
                 /\ Sizes(stats') = <<stats.size.source + file'.source_size,
                                      stats.size.target + file'.target_size>>
            [] stats'.processed = stats.processed ->
                 Sizes(stats') = Sizes(stats)
            [] OTHER -> stats'.processed = 0]_vars

\* A lenient run over two files has ended: one file was counted as
\* processed and the totals are its sizes, while the other file, whose
\* output could not be typed, has added nothing.
C38_Witness ==
    /\ pc = "done"
    /\ ~strict
    /\ stats.sources = 2
    /\ stats.processed = 1
    /\ errs.retype = 1
    /\ Sizes(stats) = <<ByteLength("v1"), ByteLength("o2")>>

\* This step of a strict run reports an error of the current file and
\* throws it.
ThrowsOnFile ==
    /\ strict
    /\ pc' = "thrown"
    /\ \E k \in {"read", "transform", "retype", "dir", "write"} :
         errs'[k] = errs[k] + 1

\* C39: the fingerprint document changes in the store at the end of run()
\* only, and a strict run that throws on an error of a file has not reached
\* that store, so that the document is as it was before the run; the throw
\* leaves the outputs the run has written on storage.
C39_ThrowLeavesDocument ==
    [][/\ pc # "persist" => fsMapDoc' = fsMapDoc
       /\ ThrowsOnFile =>
            /\ calls'.persist = 0
            /\ fsFiles' = fsFiles
            /\ handled'.written # {} => fsFiles' # {}]_vars

\* A strict run with fingerprinting has thrown on an error of its second
\* file: the first file was fingerprinted and written, its output is on
\* storage and its new hash is in memory but not in the document.
C39_Witness ==
    /\ pc = "thrown"
    /\ strict
    /\ options.map
    /\ i = 2
    /\ handled.written # {}
    /\ fsFiles # {}
    /\ calls.persist = 0
    /\ \E id \in handled.upserted :
         /\ map[KeyOf(id)] # Null
         /\ Stored(fsMapDoc)[KeyOf(id)] # map[KeyOf(id)]

====
